---- MODULE Spec2Model ----
(***************************************************************************)
(* A model of csv_analyzer.py: the profiling engine analyze_csv (header    *)
(* handling, the row scan with its per-column aggregation and type state   *)
(* machine, the finalisation of the report) and the interactive loop main. *)
(*                                                                         *)
(* A string is a sequence of one-character strings, a row is a sequence of *)
(* strings and a file is the sequence of rows csv.reader yields for it.    *)
(***************************************************************************)
EXTENDS Integers, Sequences, FiniteSets, TLC

VARIABLES
    \* analyze_csv
    pc,             \* position inside analyze_csv
    file,           \* the rows of the file read so far (it is never modified)
    eof,            \* the end of the file was reached: file is the whole file
    pos,            \* number of rows the reader has yielded since the last seek(0)
    has_header,     \* csv.Sniffer().has_header(sample)
    headers,        \* headers
    column_stats,   \* column_stats
    row_count,      \* row_count
    last_row,       \* the row the latest iteration of the scan loop processed
    error,          \* the exception analyze_csv raised, or "none"
    result,         \* the value analyze_csv returned, or NoReport
    \* main
    mpc,            \* position inside main
    file_path,      \* file_path
    report,         \* report
    choice,         \* choice
    raised,         \* the exception raised inside the try block by the latest step
    screen          \* what the latest display call or message put on the screen

scanvars == <<pc, file, eof, pos, has_header, headers, column_stats,
              row_count, last_row, error, result>>

mainvars == <<mpc, report, choice, raised, screen>>

vars == <<scanvars, mainvars, file_path>>

(***************************************************************************)
(* Bounds                                                                  *)
(***************************************************************************)
\* longest file, in rows
MaxRows == 6

\* the sample buffer keeps this many values
SampleCap == 5

\* "All Unique Values" is shown up to this many unique values
ListAllMax == 20

\* "Common Values" shows this many values
CommonShown == 5

\* The strings the fields of a file are drawn from.
sEmpty    == << >>
sBlank    == <<" ">>
sOne      == <<"1">>
sTwo      == <<"2">>
sPadOne   == <<" ", "1">>
sOnePad   == <<"1", " ">>
sDecimal  == <<"1", ".", "5">>
sMultiDot == <<"1", ".", "2", ".", "3">>
sSigned   == <<"-", "1">>
sDot      == <<".">>
sText     == <<"a">>

\* The rows a file is made of: no field at all, fewer, as many and more
\* fields than a two-column header.
RowPool ==
    { << >>,
      <<sOne>>,
      <<sEmpty, sText>>,
      <<sPadOne, sDecimal>>,
      <<sMultiDot, sBlank>>,
      <<sTwo, sSigned, sOnePad>> }

NoReport == [none |-> TRUE]

(***************************************************************************)
(* String functions of Python                                              *)
(***************************************************************************)
Digits == {"0", "1", "2", "3", "4", "5", "6", "7", "8", "9"}

\* characters that str.isdigit() accepts and int() and float() reject;
\* "sup2" stands for the superscript two, U+00B2
OtherDigits == {"sup2"}

Whitespace == {" "}

RECURSIVE lstrip(_)
lstrip(s) ==
    IF s # << >> /\ Head(s) \in Whitespace THEN lstrip(Tail(s)) ELSE s

RECURSIVE rstrip(_)
rstrip(s) ==
    IF s # << >> /\ s[Len(s)] \in Whitespace
    THEN rstrip(SubSeq(s, 1, Len(s) - 1))
    ELSE s

\* value.strip()
strip(s) == rstrip(lstrip(s))

\* value.replace('.', '', 1): the first '.' is removed, if there is one
RECURSIVE replace_first_dot(_)
replace_first_dot(s) ==
    IF s = << >> THEN << >>
    ELSE IF Head(s) = "." THEN Tail(s)
    ELSE <<Head(s)>> \o replace_first_dot(Tail(s))

\* str.isdigit(): at least one character, and all of them digits
isdigit(s) ==
    s # << >> /\ \A i \in 1..Len(s) : s[i] \in Digits \cup OtherDigits

\* value.replace('.', '', 1).isdigit()
looks_numeric(value) == isdigit(replace_first_dot(value))

(***************************************************************************)
(* The column profiler                                                     *)
(***************************************************************************)
\* one entry of column_stats, as created for a header
NewColumn(header) ==
    [name |-> header, type |-> "unknown", empty |-> 0, unique |-> {},
     sample |-> << >>]

\* NextType with text treated like number: a numeric value makes it mixed
NextTypeSymmetric(type, value) ==
    IF strip(value) # << >>
    THEN IF type = "unknown"
         THEN IF looks_numeric(value) THEN "number" ELSE "text"
         ELSE IF type = "number" /\ ~looks_numeric(value) THEN "mixed"
         ELSE IF type = "text" /\ looks_numeric(value) THEN "mixed"
         ELSE type
    ELSE type

\* the type a column has after a value
NextType(type, value) ==
    IF strip(value) # << >>
    THEN IF type = "unknown"
         THEN IF looks_numeric(value) THEN "number" ELSE "text"
         ELSE IF type = "number" /\ ~looks_numeric(value) THEN "mixed"
         ELSE type
    ELSE type

\* NextSample testing the raw value, not the trimmed one, for emptiness
NextSampleRaw(sample, value) ==
    IF Len(sample) < SampleCap /\ value # << >>
    THEN Append(sample, value)
    ELSE sample

\* the sample buffer after a value
NextSample(sample, value) ==
    IF Len(sample) < SampleCap /\ strip(value) # << >>
    THEN Append(sample, value)
    ELSE sample

\* NextEmpty counting only the values that are empty before trimming
NextEmptyRaw(empty, value) ==
    IF value = << >> THEN empty + 1 ELSE empty

\* the empty counter after a value
NextEmpty(empty, value) ==
    IF strip(value) = << >> THEN empty + 1 ELSE empty

\* UpdateColumn collecting the trimmed values in the unique set
UpdateColumnTrimmed(col, value) ==
    [col EXCEPT !.unique = @ \cup {strip(value)},
                !.empty  = NextEmpty(@, value),
                !.sample = NextSample(@, value),
                !.type   = NextType(@, value)]

\* the body of the inner loop for one field of column col
UpdateColumn(col, value) ==
    [col EXCEPT !.unique = @ \cup {value},
                !.empty  = NextEmpty(@, value),
                !.sample = NextSample(@, value),
                !.type   = NextType(@, value)]

\* HasNoHeader off by one: the last column counts as having no header
HasNoHeaderOffByOne(i, nheaders) == i >= nheaders

\* the guard of the inner loop: field i (counted from 1) has no header
HasNoHeader(i, nheaders) == i > nheaders

\* ProcessFields running over the headers, a missing field read as ""
RECURSIVE ProcessFieldsPadded(_, _, _)
ProcessFieldsPadded(stats, row, i) ==
    IF i > Len(stats) THEN stats
    ELSE ProcessFieldsPadded(
             [stats EXCEPT ![i] =
                 UpdateColumn(@, IF i <= Len(row) THEN row[i] ELSE << >>)],
             row, i + 1)

\* the inner loop over enumerate(row), from field i on
RECURSIVE ProcessFields(_, _, _)
ProcessFields(stats, row, i) ==
    IF i > Len(row) THEN stats
    ELSE IF HasNoHeader(i, Len(stats))
         THEN ProcessFields(stats, row, i + 1)
         ELSE ProcessFields([stats EXCEPT ![i] = UpdateColumn(@, row[i])],
                            row, i + 1)

\* empty_pct as the exact fraction num/den
EmptyPct(empty, rows) ==
    IF rows # 0 THEN [num |-> empty * 100, den |-> rows]
    ELSE [num |-> 0, den |-> 1]

\* FinalizeColumn dividing by the number of unique values
FinalizeColumnByUnique(col, rows) ==
    [name |-> col.name, type |-> col.type, empty |-> col.empty,
     sample |-> col.sample,
     unique_count |-> Cardinality(col.unique),
     empty_pct |-> EmptyPct(col.empty, Cardinality(col.unique))]

\* the finalisation of one column
FinalizeColumn(col, rows) ==
    [name |-> col.name, type |-> col.type, empty |-> col.empty,
     sample |-> col.sample,
     unique_count |-> Cardinality(col.unique),
     empty_pct |-> EmptyPct(col.empty, rows)]

\* f"Column {i+1}" for the field with index i, counted from 0
DigitChar(n) ==
    CASE n = 0 -> "0" [] n = 1 -> "1" [] n = 2 -> "2" [] n = 3 -> "3"
      [] n = 4 -> "4" [] n = 5 -> "5" [] n = 6 -> "6" [] n = 7 -> "7"
      [] n = 8 -> "8" [] n = 9 -> "9"

\* ColumnName numbering the columns from 0
ColumnNameZeroBased(i) ==
    <<"C", "o", "l", "u", "m", "n", " ">> \o <<DigitChar(i)>>

ColumnName(i) ==
    <<"C", "o", "l", "u", "m", "n", " ">> \o <<DigitChar(i + 1)>>

\* the headers taken from the first row
MakeHeaders(hh, first) ==
    IF hh THEN first ELSE [i \in 1..Len(first) |-> ColumnName(i - 1)]

\* FirstDataRow without the skip of the header row
FirstDataRowNoSkip(hh) == 0

\* the rows the reader skips after f.seek(0)
FirstDataRow(hh) == IF hh THEN 1 ELSE 0

\* os.path.basename(file_path): what follows the last "/"
RECURSIVE basename(_)
basename(path) ==
    IF \E i \in 1..Len(path) : path[i] = "/"
    THEN basename(Tail(path))
    ELSE path

\* the dictionary analyze_csv returns
MakeReport(path, hdrs, rows, stats) ==
    [file_name |-> basename(path), headers |-> hdrs, row_count |-> rows,
     column_stats |-> [i \in 1..Len(stats) |-> FinalizeColumn(stats[i], rows)]]

(***************************************************************************)
(* analyze_csv as a state machine                                          *)
(***************************************************************************)
\* the path analyze_csv is called with
ScanPath == <<"d", "/", "f">>

MainIdle ==
    /\ mpc = "prompt"
    /\ report = NoReport
    /\ choice = << >>
    /\ raised = "none"
    /\ screen = [view |-> "banner", report |-> NoReport, col |-> 0]

InitScan ==
    /\ pc = "open"
    /\ file = << >>
    /\ eof = FALSE
    /\ pos = 0
    /\ has_header = FALSE
    /\ headers = << >>
    /\ column_stats = << >>
    /\ row_count = 0
    /\ last_row = << >>
    /\ error = "none"
    /\ result = NoReport
    /\ file_path = ScanPath
    /\ MainIdle

\* open(), f.read(), csv.Sniffer().sniff(sample) or the next(reader) of the
\* header raises: the file cannot be opened or read, is not valid UTF-8, or
\* has no delimiter
DetectFail ==
    /\ pc = "open"
    /\ pc' = "failed"
    /\ \E e \in {"OSError", "UnicodeDecodeError", "Error", "KeyboardInterrupt"} :
          error' = e
    /\ UNCHANGED <<file, eof, pos, has_header, headers, column_stats,
                   row_count, last_row, result>>
    /\ UNCHANGED <<mainvars, file_path>>

\* the file has no row at all: the sniffer finds no delimiter in the empty
\* sample and raises csv.Error (and next(reader) has no row to return)
EmptyFile ==
    /\ pc = "open"
    /\ pc' = "failed"
    /\ eof' = TRUE
    /\ error' = "Error"
    /\ UNCHANGED <<file, pos, has_header, headers, column_stats, row_count,
                   last_row, result>>
    /\ UNCHANGED <<mainvars, file_path>>

\* the headers are read off the first row, the file is rewound and the
\* header row skipped; column_stats and row_count are initialised
ProcessHeaders ==
    /\ pc = "open"
    /\ \E hh \in BOOLEAN, first \in RowPool :
          /\ has_header' = hh
          /\ file' = <<first>>
          /\ headers' = MakeHeaders(hh, first)
          /\ pos' = FirstDataRow(hh)
    /\ column_stats' = [i \in 1..Len(headers') |-> NewColumn(headers'[i])]
    /\ row_count' = 0
    /\ pc' = "scan"
    /\ UNCHANGED <<eof, last_row, error, result>>
    /\ UNCHANGED <<mainvars, file_path>>

\* NextRowCount passing over the rows that have no field
NextRowCountSkipBlank(rows, row) == IF row = << >> THEN rows ELSE rows + 1

\* row_count after the reader has yielded row
NextRowCount(rows, row) == rows + 1

\* one iteration of "for row in reader"
ScanRow ==
    /\ pc = "scan"
    /\ \E row \in RowPool :
          /\ IF pos < Len(file)
             THEN row = file[pos + 1] /\ file' = file
             ELSE Len(file) < MaxRows /\ file' = Append(file, row)
          /\ last_row' = row
          /\ column_stats' = ProcessFields(column_stats, row, 1)
    /\ pos' = pos + 1
    /\ row_count' = NextRowCount(row_count, last_row')
    /\ UNCHANGED <<pc, eof, has_header, headers, error, result>>
    /\ UNCHANGED <<mainvars, file_path>>

\* the reader raises in the middle of the scan: a row breaks the dialect,
\* the bytes are not valid UTF-8, or the read of the file fails
ScanFail ==
    /\ pc = "scan"
    /\ pc' = "failed"
    /\ \E e \in {"Error", "UnicodeDecodeError", "OSError", "KeyboardInterrupt"} :
          error' = e
    /\ UNCHANGED <<file, eof, pos, has_header, headers, column_stats,
                   row_count, last_row, result>>
    /\ UNCHANGED <<mainvars, file_path>>

\* the reader is exhausted: the statistics are finalised and the report
\* is returned
Finalize ==
    /\ pc = "scan"
    /\ pos = Len(file)
    /\ eof' = TRUE
    /\ result' = MakeReport(file_path, headers, row_count, column_stats)
    /\ column_stats' = result'.column_stats
    /\ pc' = "done"
    /\ UNCHANGED <<file, pos, has_header, headers, row_count, last_row,
                   error>>
    /\ UNCHANGED <<mainvars, file_path>>

NextScan ==
    \/ DetectFail
    \/ EmptyFile
    \/ ProcessHeaders
    \/ ScanRow
    \/ ScanFail
    \/ Finalize

SpecScan == InitScan /\ [][NextScan]_vars

(***************************************************************************)
(* The presenter: display_summary and display_column_details               *)
(***************************************************************************)
Letters ==
    <<"a", "b", "c", "d", "e", "f", "g", "h", "i", "j", "k", "l", "m",
      "n", "o", "p", "q", "r", "s", "t", "u", "v", "w", "x", "y", "z">>

\* ord(c), the code point that the comparison of strings goes by
Ord(c) ==
    CASE c = " " -> 32
      [] c = "-" -> 45
      [] c = "." -> 46
      [] c = "/" -> 47
      [] c \in Digits -> 48 + (CHOOSE n \in 0..9 : DigitChar(n) = c)
      [] c = "sup2" -> 178
      [] OTHER -> 96 + (CHOOSE k \in 1..26 : Letters[k] = c)

\* a < b for two strings
RECURSIVE str_less(_, _)
str_less(a, b) ==
    IF b = << >> THEN FALSE
    ELSE IF a = << >> THEN TRUE
    ELSE IF Head(a) = Head(b) THEN str_less(Tail(a), Tail(b))
    ELSE Ord(Head(a)) < Ord(Head(b))

\* x put into the sorted list l, behind the elements that are not greater
RECURSIVE insert_sorted(_, _)
insert_sorted(x, l) ==
    IF l = << >> THEN <<x>>
    ELSE IF str_less(x, Head(l)) THEN <<x>> \o l
    ELSE <<Head(l)>> \o insert_sorted(x, Tail(l))

\* sorted(l), for a list of strings
RECURSIVE sorted(_)
sorted(l) ==
    IF l = << >> THEN << >>
    ELSE insert_sorted(l[Len(l)], sorted(SubSeq(l, 1, Len(l) - 1)))

\* l[:n]
slice(l, n) == SubSeq(l, 1, IF Len(l) < n THEN Len(l) ELSE n)

\* int(s), for a string of ASCII digits ('' counts as 0 here)
DigitOf(c) == CHOOSE n \in 0..9 : DigitChar(n) = c

RECURSIVE digits_value(_)
digits_value(s) ==
    IF s = << >> THEN 0
    ELSE 10 * digits_value(SubSeq(s, 1, Len(s) - 1)) + DigitOf(s[Len(s)])

RECURSIVE Pow10(_)
Pow10(k) == IF k = 0 THEN 1 ELSE 10 * Pow10(k - 1)

RECURSIVE GCD(_, _)
GCD(a, b) == IF b = 0 THEN a ELSE GCD(b, a % b)

\* the fraction n/d in lowest terms; the numbers of the summary are kept
\* exact (the screen shows them rounded to two decimals)
Rat(n, d) == [num |-> n \div GCD(n, d), den |-> d \div GCD(n, d)]

rat_less(a, b) == a.num * b.den < b.num * a.den

rat_add(a, b) == Rat(a.num * b.den + b.num * a.den, a.den * b.den)

\* the number of characters behind the first '.', 0 if there is none
RECURSIVE after_dot(_)
after_dot(v) ==
    IF v = << >> THEN 0
    ELSE IF Head(v) = "." THEN Len(v) - 1
    ELSE after_dot(Tail(v))

\* float(v) returns rather than raising ValueError, for a v that passed the
\* test v.replace('.', '', 1).isdigit()
float_parses(v) == \A i \in 1..Len(v) : v[i] \in Digits \cup {"."}

\* float(v), for such a v
to_float(v) == Rat(digits_value(replace_first_dot(v)), Pow10(after_dot(v)))

\* min(numbers): the first of the smallest
RECURSIVE min_of(_)
min_of(l) ==
    IF Len(l) = 1 THEN l[1]
    ELSE LET m == min_of(Tail(l)) IN IF rat_less(m, l[1]) THEN m ELSE l[1]

\* max(numbers): the first of the greatest
RECURSIVE max_of(_)
max_of(l) ==
    IF Len(l) = 1 THEN l[1]
    ELSE LET m == max_of(Tail(l)) IN IF rat_less(l[1], m) THEN m ELSE l[1]

\* sum(numbers)
RECURSIVE sum_of(_)
sum_of(l) ==
    IF l = << >> THEN Rat(0, 1) ELSE rat_add(l[1], sum_of(Tail(l)))

NoSummary == [absent |-> TRUE]

\* NumericSummary without the test of the column's type
NumericSummaryAnyType(col) ==
    LET numeric == SelectSeq(col.sample, looks_numeric) IN
    IF \E i \in 1..Len(numeric) : ~float_parses(numeric[i])
    THEN NoSummary
    ELSE IF numeric = << >> THEN NoSummary
    ELSE LET numbers == [i \in 1..Len(numeric) |-> to_float(numeric[i])]
             total == sum_of(numbers)
         IN  [min |-> min_of(numbers), max |-> max_of(numbers),
              avg |-> Rat(total.num, total.den * Len(numbers))]

\* the "Number Analysis" block of display_column_details
NumericSummary(col) ==
    IF col.type \in {"number", "mixed"}
    THEN LET numeric == SelectSeq(col.sample, looks_numeric) IN
         IF \E i \in 1..Len(numeric) : ~float_parses(numeric[i])
         THEN NoSummary   \* float raises and the bare except passes
         ELSE IF numeric = << >> THEN NoSummary
         ELSE LET numbers == [i \in 1..Len(numeric) |-> to_float(numeric[i])]
                  total == sum_of(numbers)
              IN  [min |-> min_of(numbers), max |-> max_of(numbers),
                   avg |-> Rat(total.num, total.den * Len(numbers))]
    ELSE NoSummary

\* ValueListing that shows the sample as stored, whatever unique_count is
ValueListingUnsorted(col) ==
    IF col.unique_count <= ListAllMax THEN col.sample
    ELSE slice(col.sample, CommonShown)

\* the values display_column_details lists
ValueListing(col) ==
    IF col.unique_count <= ListAllMax THEN sorted(col.sample)
    ELSE slice(col.sample, CommonShown)

Screen(view, rep, col) == [view |-> view, report |-> rep, col |-> col]

\* display_summary(report): what it shows, and the report as the call
\* leaves it
display_summary(rep) ==
    [screen |-> Screen("summary", rep, 0), report |-> rep]

\* a figure of the Number Analysis block that was not printed
NotShown == [missing |-> TRUE]

\* the Number Analysis block as it reaches the screen when only the first
\* "lines" of its four prints (title, Min, Max, Avg) succeed: a print that
\* raises ends the block, and the bare except lets the function go on
PrintedSummary(summary, lines) ==
    IF summary = NoSummary \/ lines = 0 THEN NoSummary
    ELSE [min |-> IF lines >= 2 THEN summary.min ELSE NotShown,
          max |-> IF lines >= 3 THEN summary.max ELSE NotShown,
          avg |-> IF lines >= 4 THEN summary.avg ELSE NotShown]

\* display_column_details sorting the sample in place, with list.sort()
display_column_details_sort_in_place(rep, col_index) ==
    LET col == rep.column_stats[col_index + 1] IN
    [screen |-> [view |-> "details", report |-> rep, col |-> col_index + 1,
                 summary |-> NumericSummary(col),
                 listing |-> ValueListing(col)],
     report |-> [rep EXCEPT !.column_stats[col_index + 1].sample = sorted(@)]]

\* display_column_details(report, col_index): what it shows, and the report
\* as the call leaves it
display_column_details(rep, col_index) ==
    LET col == rep.column_stats[col_index + 1] IN
    [screen |-> [view |-> "details", report |-> rep, col |-> col_index + 1,
                 summary |-> NumericSummary(col),
                 listing |-> ValueListing(col)],
     report |-> rep]

(***************************************************************************)
(* analyze_csv as a function of the file                                   *)
(***************************************************************************)
pData    == <<"d", "/", "a">>
pPlain   == <<"b">>
pHeader  == <<"h">>
pEmpty   == <<"e">>
pUnknown == <<"u">>
pMissing == <<"x">>
pMany    == <<"g">>
pSuper   == <<"s">>

\* str(n), for n below 100
IntStr(n) ==
    IF n < 10 THEN <<DigitChar(n)>>
    ELSE <<DigitChar(n \div 10), DigitChar(n % 10)>>

\* The files main can be pointed at: the rows csv.reader yields for each,
\* and what the sniffer makes of its first 10240 characters.
\*   d/a  "a,b\n1,2\n2,3\n,4\n"      a header and three data rows
\*   b    "1 ,1.5\n1,-1\n2, \n"      no header
\*   h    "a,b\n"                    a header and nothing else
\*   e    ""                         no delimiter to be found
\*   u    "ab\ncd\n"                 no delimiter to be found
\*   g    "21,a\n20,b\n19,a\n ... 1,a\n"  21 rows, no header
\*   s    "n,m\n\u00b2,1\n3,2\n"     a header; a superscript two as a value
FileSystem ==
    (pData :> [sniff |-> "ok", has_header |-> TRUE,
               rows |-> << <<sText, <<"b">> >>, <<sOne, sTwo>>,
                           <<sTwo, <<"3">> >>, <<sEmpty, <<"4">> >> >>])
    @@ (pPlain :> [sniff |-> "ok", has_header |-> FALSE,
                   rows |-> << <<sOnePad, sDecimal>>, <<sOne, sSigned>>,
                               <<sTwo, sBlank>> >>])
    @@ (pHeader :> [sniff |-> "ok", has_header |-> TRUE,
                    rows |-> << <<sText, <<"b">> >> >>])
    @@ (pEmpty :> [sniff |-> "Error", has_header |-> FALSE, rows |-> << >>])
    @@ (pUnknown :> [sniff |-> "Error", has_header |-> FALSE,
                     rows |-> << << <<"a", "b">> >>, << <<"c", "d">> >> >>])
    @@ (pMany :> [sniff |-> "ok", has_header |-> FALSE,
                  rows |-> [k \in 1..21 |->
                              <<IntStr(22 - k),
                                IF k % 2 = 0 THEN <<"b">> ELSE sText>>]])
    @@ (pSuper :> [sniff |-> "ok", has_header |-> TRUE,
                   rows |-> << << <<"n">>, <<"m">> >>, << <<"sup2">>, sOne>>,
                               << <<"3">>, sTwo>> >>])

\* os.path.exists(file_path)
exists(path) == path \in DOMAIN FileSystem

\* the scan loop over all the rows the reader yields
RECURSIVE ScanRows(_, _)
ScanRows(stats, rows) ==
    IF rows = << >> THEN stats
    ELSE ScanRows(ProcessFields(stats, Head(rows), 1), Tail(rows))

\* analyze_csv(file_path): the report it returns or the exception it raises
analyze_csv(path) ==
    LET f == FileSystem[path] IN
    IF f.sniff # "ok" THEN [ok |-> FALSE, error |-> f.sniff]
    ELSE IF f.rows = << >> THEN [ok |-> FALSE, error |-> "StopIteration"]
    ELSE LET hdrs == MakeHeaders(f.has_header, f.rows[1])
             data == SubSeq(f.rows, FirstDataRow(f.has_header) + 1,
                            Len(f.rows))
             stats == ScanRows([i \in 1..Len(hdrs) |-> NewColumn(hdrs[i])],
                               data)
         IN  [ok |-> TRUE,
              report |-> MakeReport(path, hdrs, Len(data), stats)]

(***************************************************************************)
(* main                                                                    *)
(***************************************************************************)
\* str.lower(), on the letters the inputs use
LowerChar(c) ==
    CASE c = "E" -> "e" [] c = "X" -> "x" [] c = "I" -> "i" [] c = "T" -> "t"
      [] c = "Q" -> "q" [] c = "U" -> "u" [] c = "N" -> "n" [] c = "R" -> "r"
      [] OTHER -> c

lower(s) == [i \in 1..Len(s) |-> LowerChar(s[i])]

\* the words that end the loop at the path prompt
ExitWords == { <<"e", "x", "i", "t">>, <<"q", "u", "i", "t">> }

\* int(choice), for a choice of ASCII digits
DigitValue(c) ==
    CASE c = "0" -> 0 [] c = "1" -> 1 [] c = "2" -> 2 [] c = "3" -> 3
      [] c = "4" -> 4 [] c = "5" -> 5 [] c = "6" -> 6 [] c = "7" -> 7
      [] c = "8" -> 8 [] c = "9" -> 9

RECURSIVE to_int(_)
to_int(s) ==
    IF s = << >> THEN 0
    ELSE 10 * to_int(SubSeq(s, 1, Len(s) - 1)) + DigitValue(s[Len(s)])

\* int(choice) returns rather than raising ValueError
int_parses(s) == s # << >> /\ \A i \in 1..Len(s) : s[i] \in Digits

\* what the user may type at the path prompt
PathInputs ==
    { pData, <<" ">> \o pData \o <<" ">>, pPlain, pHeader, pEmpty, pUnknown,
      pMany, pSuper, pMissing, << >>,
      <<"e", "x", "i", "t">>, <<"Q", "U", "I", "T">>,
      <<" ", "E", "x", "i", "t">> }

\* what the user may type at the menu
MenuInputs ==
    { <<"q">>, <<" ", "Q">>, <<"n">>, <<"N", " ">>, <<"r">>, <<"R">>,
      <<"1">>, <<"2">>, <<"0">>, <<"3">>, <<"1", "2">>, <<"sup2">>,
      <<"x">>, << >> }

\* the exceptions that can be raised inside the try block
Exceptions ==
    {"OSError", "Error", "StopIteration", "UnicodeDecodeError", "ValueError",
     "EOFError", "RuntimeError", "UnicodeEncodeError"}

\* what a print of plain ASCII text can raise: the write fails, or Ctrl-C is
\* pressed
PlainWriteFailures == {"OSError", "KeyboardInterrupt"}

\* what a print can raise when its text has characters outside ASCII (the
\* emoji and bullets of the banner, the messages and the reports, and the
\* values of the file): the above, or stdout cannot encode the text
WriteFailures == PlainWriteFailures \cup {"UnicodeEncodeError"}

\* what input() can raise: the prompt cannot be written, the input has
\* ended, its bytes are not valid UTF-8, sys.stdin or sys.stdout is lost, or
\* Ctrl-C is pressed
ReadFailures ==
    {"OSError", "EOFError", "UnicodeDecodeError", "RuntimeError",
     "KeyboardInterrupt"}

\* "except csv.Error" in the place of "except Exception"
CaughtCsvErrorOnly(e) == e = "Error"

\* "except Exception as e": e is caught
Caught(e) == e \in Exceptions

\* the except clause outside the menu loop replaced by one inside it
AfterHandlerMenu == "menu"

\* where main continues after the except clause: the next iteration of the
\* outer loop
AfterHandler == "prompt"

\* main ends with exception e uncaught: the interpreter prints a traceback
\* that names the exception and the place it was raised at: the banner
\* (lines 137-139), the path prompt (142), the "not found" message (147),
\* the try block (150-172) or the handler's print (175)
Traceback(e, at) ==
    [view |-> "traceback", report |-> NoReport, col |-> 0, exception |-> e,
     at |-> at]

\* the effect on main of an exception e raised inside the try block: the
\* handler prints the error and main goes on, or that print, which is
\* outside any try block, raises in its turn and main ends
Raise(e) ==
    /\ raised' = e
    /\ IF Caught(e)
       THEN \/ /\ mpc' = AfterHandler
               /\ screen' = Screen("error", NoReport, 0)
            \/ /\ mpc' = "crashed"
               /\ \E w \in WriteFailures : screen' = Traceback(w, "handler")
       ELSE /\ mpc' = "crashed"
            /\ screen' = Traceback(e, "try")

ScanIdle ==
    /\ pc = "open"
    /\ file = << >>
    /\ eof = FALSE
    /\ pos = 0
    /\ has_header = FALSE
    /\ headers = << >>
    /\ column_stats = << >>
    /\ row_count = 0
    /\ last_row = << >>
    /\ error = "none"
    /\ result = NoReport

\* main is called: nothing is on the screen yet
InitMain ==
    /\ ScanIdle
    /\ file_path = << >>
    /\ mpc = "start"
    /\ report = NoReport
    /\ choice = << >>
    /\ raised = "none"
    /\ screen = [view |-> "blank", report |-> NoReport, col |-> 0]

\* clear_screen() and the three prints of the banner; they are outside any
\* try block, so a print that raises ends main
Banner ==
    /\ mpc = "start"
    /\ \/ /\ mpc' = "prompt"
          /\ screen' = [view |-> "banner", report |-> NoReport, col |-> 0]
       \/ /\ mpc' = "crashed"
          /\ \E w \in WriteFailures : screen' = Traceback(w, "banner")
    /\ raised' = "none"
    /\ UNCHANGED <<file_path, report, choice, scanvars>>

\* input() at the path prompt raises; the call is outside the try block and
\* main ends
PromptFails ==
    /\ mpc = "prompt"
    /\ \E e \in ReadFailures : screen' = Traceback(e, "path_prompt")
    /\ mpc' = "crashed"
    /\ raised' = "none"
    /\ UNCHANGED <<file_path, report, choice, scanvars>>

\* 'exit' or 'quit' at the path prompt
PromptQuit ==
    /\ mpc = "prompt"
    /\ \E inp \in PathInputs :
          /\ file_path' = strip(inp)
          /\ lower(file_path') \in ExitWords
    /\ mpc' = "exited"
    /\ raised' = "none"
    /\ UNCHANGED <<report, choice, screen, scanvars>>

\* a path that does not exist
PromptNotFound ==
    /\ mpc = "prompt"
    /\ \E inp \in PathInputs :
          /\ file_path' = strip(inp)
          /\ lower(file_path') \notin ExitWords
          /\ ~exists(file_path')
    /\ \/ /\ screen' = Screen("not_found", NoReport, 0)
          /\ mpc' = mpc
       \/ /\ \E w \in WriteFailures : screen' = Traceback(w, "not_found")
          /\ mpc' = "crashed"              \* the print raises, uncaught
    /\ raised' = "none"
    /\ UNCHANGED <<report, choice, scanvars>>

\* analyze_csv raises: the detection fails, the file has no row, or reading
\* it fails
AnalyzeRaises ==
    /\ mpc = "prompt"
    /\ \E inp \in PathInputs :
          /\ file_path' = strip(inp)
          /\ lower(file_path') \notin ExitWords
          /\ exists(file_path')
          /\ \/ /\ ~analyze_csv(file_path').ok
                /\ Raise(analyze_csv(file_path').error)
             \/ \E e \in {"OSError", "UnicodeDecodeError", "KeyboardInterrupt"} :
                   Raise(e)
    /\ UNCHANGED <<report, choice, scanvars>>

\* analyze_csv returns, and display_summary shows the report or raises
AnalyzeReturns ==
    /\ mpc = "prompt"
    /\ \E inp \in PathInputs :
          /\ file_path' = strip(inp)
          /\ lower(file_path') \notin ExitWords
          /\ exists(file_path')
          /\ analyze_csv(file_path').ok
          /\ \/ /\ report' =
                      display_summary(analyze_csv(file_path').report).report
                   /\ screen' =
                      display_summary(analyze_csv(file_path').report).screen
                   /\ raised' = "none"
                   /\ mpc' = "menu"
                \/ /\ report' = analyze_csv(file_path').report
                   /\ \E w \in WriteFailures : Raise(w)
    /\ UNCHANGED <<choice, scanvars>>

\* the prints of the menu or its input() raise
MenuPromptFails ==
    /\ mpc = "menu"
    /\ \E e \in ReadFailures : Raise(e)
    /\ UNCHANGED <<file_path, report, choice, scanvars>>

\* q in the menu
MenuQuit ==
    /\ mpc = "menu"
    /\ \E inp \in MenuInputs : choice' = lower(strip(inp))
    /\ choice' = <<"q">>
    /\ mpc' = "exited"
    /\ raised' = "none"
    /\ UNCHANGED <<file_path, report, screen, scanvars>>

\* n in the menu
MenuNewFile ==
    /\ mpc = "menu"
    /\ \E inp \in MenuInputs : choice' = lower(strip(inp))
    /\ choice' = <<"n">>
    /\ mpc' = "prompt"
    /\ raised' = "none"
    /\ UNCHANGED <<file_path, report, screen, scanvars>>

\* r in the menu
MenuRefresh ==
    /\ mpc = "menu"
    /\ \E inp \in MenuInputs : choice' = lower(strip(inp))
    /\ choice' = <<"r">>
    /\ \/ /\ screen' = display_summary(report).screen
          /\ report' = display_summary(report).report
          /\ raised' = "none"
          /\ mpc' = "menu"
       \/ (\E w \in WriteFailures : Raise(w)) /\ report' = report
    /\ UNCHANGED <<file_path, scanvars>>

\* a choice that isdigit() accepts
MenuDigit ==
    /\ mpc = "menu"
    /\ \E inp \in MenuInputs : choice' = lower(strip(inp))
    /\ choice' \notin { <<"q">>, <<"n">>, <<"r">> }
    /\ isdigit(choice')
    /\ IF ~int_parses(choice')
       THEN Raise("ValueError") /\ report' = report
       ELSE LET col_index == to_int(choice') - 1 IN
            IF 0 <= col_index /\ col_index < Len(report.headers)
            THEN \/ /\ \E lines \in 0..4 :
                          screen' =
                            [display_column_details(report, col_index).screen
                                EXCEPT !.summary = PrintedSummary(@, lines)]
                    /\ report' =
                       display_column_details(report, col_index).report
                    /\ raised' = "none"
                    /\ mpc' = "menu"
                 \/ (\E w \in WriteFailures : Raise(w)) /\ report' = report
            ELSE \/ /\ screen' = Screen("invalid_column", NoReport, 0)
                    /\ report' = report
                    /\ raised' = "none"
                    /\ mpc' = "menu"
                 \/ (\E w \in PlainWriteFailures : Raise(w)) /\ report' = report
    /\ UNCHANGED <<file_path, scanvars>>

\* any other choice
MenuInvalid ==
    /\ mpc = "menu"
    /\ \E inp \in MenuInputs : choice' = lower(strip(inp))
    /\ choice' \notin { <<"q">>, <<"n">>, <<"r">> }
    /\ ~isdigit(choice')
    /\ \/ /\ screen' = Screen("invalid_option", NoReport, 0)
          /\ raised' = "none"
          /\ mpc' = mpc
       \/ \E w \in PlainWriteFailures : Raise(w)
    /\ UNCHANGED <<file_path, report, scanvars>>

NextMain ==
    \/ Banner
    \/ PromptFails
    \/ PromptQuit
    \/ PromptNotFound
    \/ AnalyzeRaises
    \/ AnalyzeReturns
    \/ MenuPromptFails
    \/ MenuQuit
    \/ MenuNewFile
    \/ MenuRefresh
    \/ MenuDigit
    \/ MenuInvalid

SpecMain == InitMain /\ [][NextMain]_vars

(***************************************************************************)
(* What the scan has seen, read off the file                               *)
(***************************************************************************)
\* the value is empty after trimming
Blank(v) == \A k \in 1..Len(v) : v[k] \in Whitespace

NonBlank(v) == ~Blank(v)

\* the rows the scan loop has processed so far
Processed == SubSeq(file, pos - row_count + 1, pos)

\* the fields found at index i (counted from 1) in rows, in file order
RECURSIVE ValuesAt(_, _)
ValuesAt(rows, i) ==
    IF rows = << >> THEN << >>
    ELSE (IF Len(Head(rows)) >= i THEN <<Head(rows)[i]>> ELSE << >>)
         \o ValuesAt(Tail(rows), i)

Range(seq) == {seq[k] : k \in 1..Len(seq)}

Take(seq, n) == SubSeq(seq, 1, IF Len(seq) < n THEN Len(seq) ELSE n)

Scanning == pc = "scan"

\* the step is an iteration of the scan loop
RowStep == pc = "scan" /\ pc' = "scan"

(***************************************************************************)
(* C1: during the scan a column's type changes only by unknown->number,    *)
(* unknown->text or number->mixed, at the finalisation not at all, and a   *)
(* field that is empty after trimming never changes it.                    *)
(***************************************************************************)
TypeStep(t, u) ==
    \/ u = t
    \/ t = "unknown" /\ u \in {"number", "text"}
    \/ t = "number" /\ u = "mixed"

\* C1: each step of analyze_csv moves a type along the lattice only
C1_TypeLattice ==
    [][pc = "scan" =>
        /\ Len(column_stats') = Len(column_stats)
        /\ \A i \in 1..Len(column_stats) :
              /\ TypeStep(column_stats[i].type, column_stats'[i].type)
              /\ (pc' = "scan" /\ i <= Len(last_row') /\ Blank(last_row'[i]))
                    => column_stats'[i].type = column_stats[i].type]_vars

\* a column that went unknown->number->mixed has just processed a blank
\* field, next to a column of type text
C1_Witness ==
    /\ pc = "scan"
    /\ \E i, j \in 1..Len(column_stats) :
          /\ column_stats[i].type = "mixed"
          /\ i <= Len(last_row) /\ Blank(last_row[i])
          /\ column_stats[j].type = "text"

(***************************************************************************)
(* C2: after every prefix of the rows, a column's sample is the first      *)
(* min(5, k) of its k values that are not empty after trimming, in file    *)
(* order.                                                                  *)
(***************************************************************************)
C2_SampleIsPrefix ==
    pc \in {"scan", "done"} =>
        \A i \in 1..Len(column_stats) :
            column_stats[i].sample =
                Take(SelectSeq(ValuesAt(Processed, i), NonBlank), 5)

\* a column has seen more than five non-blank values and a blank one
C2_Witness ==
    /\ pc = "scan"
    /\ \E i \in 1..Len(column_stats) :
          /\ Len(SelectSeq(ValuesAt(Processed, i), NonBlank)) > 5
          /\ Len(column_stats[i].sample) = 5
    /\ \E j \in 1..Len(column_stats) :
          /\ \E v \in Range(ValuesAt(Processed, j)) : Blank(v)
          /\ column_stats[j].sample # << >>

(***************************************************************************)
(* C3: for a field whose trimmed value v is not empty the type moves as    *)
(* looks_numeric(v) of the TRIMMED value says: unknown->number and         *)
(* number->number if it holds, unknown->text and number->mixed if not.     *)
(***************************************************************************)
ClaimedType(t, v) ==
    IF t = "unknown" THEN (IF looks_numeric(v) THEN "number" ELSE "text")
    ELSE IF t = "number" /\ ~looks_numeric(v) THEN "mixed"
    ELSE t

\* C3: the type follows looks_numeric of the trimmed value
C3_TrimmedClassification ==
    [][RowStep =>
        \A i \in 1..Len(column_stats) :
            (i <= Len(last_row') /\ NonBlank(last_row'[i])) =>
                column_stats'[i].type =
                    ClaimedType(column_stats[i].type, strip(last_row'[i]))]_vars

(***************************************************************************)
(* C4 as stated: analyze_csv on an empty file, or on a file without data   *)
(* rows, returns a report with row_count 0 whose columns all have          *)
(* empty_pct 0, unique_count 0, an empty sample and type unknown.          *)
(***************************************************************************)
ZeroReport(r) ==
    /\ r # NoReport
    /\ r.row_count = 0
    /\ Len(r.column_stats) = Len(r.headers)
    /\ \A i \in 1..Len(r.column_stats) :
          /\ r.column_stats[i].empty_pct.num = 0
          /\ r.column_stats[i].unique_count = 0
          /\ r.column_stats[i].sample = << >>
          /\ r.column_stats[i].type = "unknown"

HeaderOnly == has_header /\ Len(file) = 1

\* C4 as stated: an empty or header-only file yields the all-zero report
C4_EmptyOrNoDataRows ==
    (eof /\ (file = << >> \/ HeaderOnly)) => ZeroReport(result)

(***************************************************************************)
(* C4 amended: on a file that consists of its header row only analyze_csv  *)
(* returns that report; on an empty file it raises and returns no report.  *)
(***************************************************************************)
C4_NoDataRows ==
    /\ (eof /\ file # << >> /\ HeaderOnly) => ZeroReport(result)
    /\ (eof /\ file = << >>) =>
          (pc = "failed" /\ error # "none" /\ result = NoReport)

C4_Witness ==
    /\ pc = "done"
    /\ HeaderOnly
    /\ Len(result.column_stats) >= 2

(***************************************************************************)
(* C5: every column's empty count lies between 0 and row_count, so that in *)
(* the report empty_pct lies in [0, 100]; it is 0 when row_count is 0.     *)
(***************************************************************************)
C5_EmptyPctRange ==
    /\ pc = "scan" =>
          \A i \in 1..Len(column_stats) :
              0 <= column_stats[i].empty /\ column_stats[i].empty <= row_count
    /\ pc = "done" =>
          \A i \in 1..Len(result.column_stats) :
              LET p == result.column_stats[i].empty_pct IN
                  /\ p.den > 0
                  /\ 0 <= p.num /\ p.num <= 100 * p.den
                  /\ result.row_count = 0 => p.num = 0

\* a report over several rows with a column at exactly 100 per cent next
\* to a column below it
C5_Witness ==
    /\ pc = "done"
    /\ result.row_count >= 2
    /\ \E i, j \in 1..Len(result.column_stats) :
          LET p == result.column_stats[i].empty_pct
              q == result.column_stats[j].empty_pct IN
              /\ p.num = 100 * p.den
              /\ q.num < 100 * q.den

(***************************************************************************)
(* C6: unique_count is the number of distinct raw strings found at the     *)
(* column's index in the processed rows, the empty string and strings that *)
(* differ in surrounding whitespace included.                              *)
(***************************************************************************)
C6_UniqueCountsRaw ==
    /\ pc = "scan" =>
          \A i \in 1..Len(column_stats) :
              column_stats[i].unique = Range(ValuesAt(Processed, i))
    /\ pc = "done" =>
          \A i \in 1..Len(result.column_stats) :
              result.column_stats[i].unique_count =
                  Cardinality(Range(ValuesAt(Processed, i)))

\* a column saw "", "1" and " 1", and some value twice
C6_Witness ==
    /\ pc = "done"
    /\ \E i \in 1..Len(result.column_stats) :
          /\ {sEmpty, sOne, sPadOne} \subseteq Range(ValuesAt(Processed, i))
          /\ result.column_stats[i].unique_count < Len(ValuesAt(Processed, i))
          /\ result.column_stats[i].unique_count >= 3

(***************************************************************************)
(* C7: a row with more fields than headers leaves every column, and        *)
(* row_count, as the row cut to its first len(headers) fields does.        *)
(***************************************************************************)
\* the update by a row that has exactly one field per column
ExactRow(stats, row) == [i \in 1..Len(stats) |-> UpdateColumn(stats[i], row[i])]

\* C7: a long row acts as its first len(headers) fields
C7_ExtraFieldsDropped ==
    [][(RowStep /\ Len(last_row') > Len(headers)) =>
          /\ column_stats' =
                ExactRow(column_stats, SubSeq(last_row', 1, Len(headers)))
          /\ row_count' = row_count + 1
          /\ error' = "none"]_vars

C7_Witness ==
    /\ pc = "scan"
    /\ row_count >= 2
    /\ Len(headers) >= 1
    /\ Len(last_row) > Len(headers)
    /\ \A i \in 1..Len(column_stats) : column_stats[i].sample # << >>

(***************************************************************************)
(* C8: a row with m < len(headers) fields leaves the columns with index    *)
(* >= m untouched and updates the columns with index < m as usual.         *)
(***************************************************************************)
C8_MissingFieldsUntouched ==
    [][(RowStep /\ Len(last_row') < Len(headers)) =>
          /\ Len(column_stats') = Len(headers)
          /\ \A i \in 1..Len(headers) :
                column_stats'[i] =
                    IF i <= Len(last_row')
                    THEN UpdateColumn(column_stats[i], last_row'[i])
                    ELSE column_stats[i]]_vars

\* a short, non-empty row was processed when the columns it misses already
\* had values
C8_Witness ==
    /\ pc = "scan"
    /\ 1 <= Len(last_row) /\ Len(last_row) < Len(headers)
    /\ row_count >= 2
    /\ \A i \in 1..Len(column_stats) : column_stats[i].unique # {}

(***************************************************************************)
(* C9: every failure raised while a file is analysed or displayed is       *)
(* reported and leads back to the path prompt; main ends only on exit or   *)
(* quit at the path prompt or on q in the menu, never with a failure.      *)
(***************************************************************************)
C9_FailuresReturnToPrompt ==
    [][/\ raised' # "none" => (mpc' = "prompt" /\ screen'.view = "error")
       /\ (mpc \in {"prompt", "menu"} /\ mpc' \notin {"prompt", "menu"}) =>
             /\ raised' = "none"
             /\ \/ mpc = "prompt" /\ lower(file_path') \in ExitWords
                \/ mpc = "menu" /\ choice' = <<"q">>]_vars

\* main ends with a traceback that names one of the places
EndsAt(places) ==
    /\ mpc' = "crashed"
    /\ screen'.view = "traceback"
    /\ screen'.at \in places

\* the print of the error report, in the except clause, raised
HandlerPrintFailed ==
    /\ EndsAt({"handler"})
    /\ screen'.exception \in {"OSError", "KeyboardInterrupt", "UnicodeEncodeError"}

\* the detail view now on the screen is that of a column which has numeric
\* sample values and whose Number Analysis block is missing or incomplete:
\* float() or a print raised inside the block
BlockCutShort ==
    /\ screen'.view = "details"
    /\ LET col == screen'.report.column_stats[screen'.col] IN
       /\ col.type \in {"number", "mixed"}
       /\ SelectSeq(col.sample, looks_numeric) # << >>
       /\ IF screen'.summary = NoSummary THEN TRUE
          ELSE NotShown \in {screen'.summary.min, screen'.summary.max,
                             screen'.summary.avg}

(***************************************************************************)
(* C9, amended: every failure raised while a file is analysed or displayed *)
(* is caught by the except clause of main, except one raised inside the    *)
(* Number Analysis block of the detail view, which is swallowed there: it  *)
(* is not reported, the block is cut short and the menu goes on.  A caught *)
(* failure is reported and leads back to the path prompt unless the report *)
(* itself cannot be written.  main ends only on exit or quit at the path   *)
(* prompt, on q in the menu, on Ctrl-C, or when the terminal fails outside *)
(* the try block: at the banner, at the path prompt, at the "not found"    *)
(* message or at the error report.                                         *)
(***************************************************************************)
C9_CaughtFailuresReturnToPrompt ==
    [][/\ raised' # "none" =>
             IF raised' = "KeyboardInterrupt"
             THEN EndsAt({"try"}) /\ screen'.exception = "KeyboardInterrupt"
             ELSE \/ mpc' = "prompt" /\ screen'.view = "error"
                  \/ HandlerPrintFailed
       /\ (mpc \in {"start", "prompt", "menu"}
             /\ mpc' \notin {"start", "prompt", "menu"}) =>
             \/ /\ mpc' = "exited"
                /\ raised' = "none"
                /\ \/ mpc = "prompt" /\ lower(file_path') \in ExitWords
                   \/ mpc = "menu" /\ choice' = <<"q">>
             \/ mpc = "start" /\ raised' = "none" /\ EndsAt({"banner"})
             \/ /\ mpc = "prompt" /\ raised' = "none"
                /\ EndsAt({"path_prompt", "not_found"})
             \/ /\ raised' = "KeyboardInterrupt"
                /\ EndsAt({"try"}) /\ screen'.exception = "KeyboardInterrupt"
             \/ /\ raised' \notin {"none", "KeyboardInterrupt"}
                /\ HandlerPrintFailed
       /\ (mpc = "menu" /\ choice' \notin {<<"q">>, <<"n">>} /\ BlockCutShort) =>
             /\ mpc' = "menu"
             /\ raised' = "none"
             /\ report' = report]_vars

\* a format-detection failure was reported after an earlier file had been
\* analysed, and main is back at the path prompt
C9_Witness ==
    /\ raised = "Error"
    /\ report # NoReport
    /\ mpc = "prompt"
    /\ screen.view = "error"

(***************************************************************************)
(* C10: the menu is entered only right after analyze_csv returned for the  *)
(* path just entered, and it works on that analysis's report; when the     *)
(* path does not exist or the analysis fails, no report is produced or     *)
(* shown (an earlier report neither) and the path prompt comes next.       *)
(***************************************************************************)
C10_InMenu ==
    mpc = "menu" =>
        /\ exists(file_path)
        /\ analyze_csv(file_path).ok
        /\ report = analyze_csv(file_path).report
        /\ screen.report # NoReport => screen.report = report

\* the step is one in which a path was entered at the prompt: input()
\* returned, and the path is not exit or quit
PathEntered ==
    /\ mpc = "prompt"
    /\ ~EndsAt({"path_prompt"})
    /\ lower(file_path') \notin ExitWords

\* the step raised a failure that the except clause is there for (Ctrl-C,
\* which interrupts main wherever it is, is none)
Failed == raised' \notin {"none", "KeyboardInterrupt"}

C10_Step ==
    /\ (mpc = "prompt" /\ mpc' = "menu") =>
          /\ raised' = "none"
          /\ screen' = Screen("summary", report', 0)
    /\ (PathEntered /\ (~exists(file_path') \/ Failed)) =>
          /\ mpc' = "prompt"
          /\ screen'.view \in {"not_found", "error"}
          /\ screen'.report = NoReport
    /\ (PathEntered /\ (~exists(file_path') \/ ~analyze_csv(file_path').ok)) =>
          report' = report
    /\ (screen' # screen /\ screen'.report # NoReport) =>
          (mpc' = "menu" /\ screen'.report = report')

\* C10: the menu always holds the report of the path just analysed, and a
\* failed or missing path shows no report and returns to the prompt
C10_AllOrNothing == []C10_InMenu /\ [][C10_Step]_vars

\* C10_Step with the end of main in the place of the path prompt when the
\* message cannot be written to the screen
C10_StepOrEnd ==
    /\ (mpc = "prompt" /\ mpc' = "menu") =>
          /\ raised' = "none"
          /\ screen' = Screen("summary", report', 0)
    /\ (PathEntered /\ (~exists(file_path') \/ Failed)) =>
          /\ \/ mpc' = "prompt" /\ screen'.view \in {"not_found", "error"}
             \/ /\ EndsAt({IF raised' = "none" THEN "not_found" ELSE "handler"})
                /\ screen'.exception \in
                      {"OSError", "KeyboardInterrupt", "UnicodeEncodeError"}
          /\ screen'.report = NoReport
    /\ (PathEntered /\ (~exists(file_path') \/ ~analyze_csv(file_path').ok)) =>
          report' = report
    /\ (screen' # screen /\ screen'.report # NoReport) =>
          (mpc' = "menu" /\ screen'.report = report')

(***************************************************************************)
(* C10, amended: the menu is entered only right after analyze_csv returned *)
(* for the path just entered, and it works on that analysis's report; when *)
(* the path does not exist or the analysis fails, no report is produced or *)
(* shown (an earlier report neither) and the path prompt comes next, or,   *)
(* when the "not found" message or the error report cannot be written to   *)
(* the screen, the end of main.                                            *)
(***************************************************************************)
C10_AllOrNothingOrEnd == []C10_InMenu /\ [][C10_StepOrEnd]_vars

\* the analysis of the path just entered failed while main still holds the
\* report of an earlier file
C10_Witness ==
    /\ mpc = "prompt"
    /\ report # NoReport
    /\ exists(file_path)
    /\ ~analyze_csv(file_path).ok
    /\ screen = Screen("error", NoReport, 0)

(***************************************************************************)
(* C11: in the menu q alone ends main; a digit string naming a column in   *)
(* 1..len(headers) shows that column's detail, r shows the summary again,  *)
(* n leads to the path prompt, and every other input is reported as        *)
(* invalid and the menu prompts again with the same report.  (Steps in     *)
(* which a print or input() itself raises are left aside.)                 *)
(***************************************************************************)
NamesColumn(c) == int_parses(c) /\ to_int(c) \in 1..Len(report.headers)

\* C11: every menu input other than q, n, r and a column number is answered
\* with "invalid" in the menu
C11_MenuHandlesEveryInput ==
    [][(mpc = "menu" /\ raised' \notin
                          {"OSError", "EOFError", "UnicodeDecodeError",
                           "RuntimeError", "KeyboardInterrupt",
                           "UnicodeEncodeError"}) =>
          IF choice' = <<"q">> THEN mpc' = "exited"
          ELSE /\ report' = report
               /\ IF choice' = <<"n">> THEN mpc' = "prompt"
                  ELSE IF choice' = <<"r">>
                  THEN /\ mpc' = "menu"
                       /\ screen'.view = "summary"
                       /\ screen'.report = report
                  ELSE IF NamesColumn(choice')
                  THEN /\ mpc' = "menu"
                       /\ screen'.view = "details"
                       /\ screen'.report = report
                       /\ screen'.col = to_int(choice')
                  ELSE /\ mpc' = "menu"
                       /\ screen'.view \in {"invalid_column", "invalid_option"}
      ]_vars

(***************************************************************************)
(* The detail view against the file it is about                            *)
(***************************************************************************)
\* a column's detail is on the screen, in the menu of the file file_path
InDetails == mpc = "menu" /\ screen.view = "details"

\* the column the detail view is about
ShownColumn == screen.report.column_stats[screen.col]

\* the data rows of the file at file_path
DataRowsOf(path) ==
    IF FileSystem[path].has_header THEN Tail(FileSystem[path].rows)
    ELSE FileSystem[path].rows

\* the non-blank values of the column on the screen, in file order
ShownNonBlank == SelectSeq(ValuesAt(DataRowsOf(file_path), screen.col), NonBlank)

\* x * 1000 for a fraction x with at most three decimals
Thousandths(x) == (x.num * 1000) \div x.den

RECURSIVE SumThousandths(_)
SumThousandths(l) ==
    IF l = << >> THEN 0 ELSE Thousandths(to_float(Head(l))) + SumThousandths(Tail(l))

(***************************************************************************)
(* C12: a numeric summary is shown only for a column of type number or     *)
(* mixed, and its min, max and average are those of the elements of the    *)
(* retained sample that pass looks_numeric; the sample being the first     *)
(* five non-blank values, later values of the column have no part in it.   *)
(***************************************************************************)
C12_SummaryFromSample ==
    InDetails =>
        LET numeric == SelectSeq(Take(ShownNonBlank, 5), looks_numeric)
            values  == {to_float(numeric[k]) : k \in 1..Len(numeric)}
            sm      == screen.summary
        IN  /\ ShownColumn.sample = Take(ShownNonBlank, 5)
            /\ ShownColumn.type \notin {"number", "mixed"} => sm = NoSummary
            /\ sm # NoSummary =>
                  /\ ShownColumn.type \in {"number", "mixed"}
                  /\ numeric # << >>
                  /\ sm.min # NotShown =>
                        /\ sm.min \in values
                        /\ \A x \in values : ~rat_less(x, sm.min)
                  /\ sm.max # NotShown =>
                        /\ sm.max \in values
                        /\ \A x \in values : ~rat_less(sm.max, x)
                  /\ sm.avg # NotShown =>
                        Thousandths(sm.avg) * Len(numeric) =
                            SumThousandths(numeric)

\* a summary is shown for a column that has more non-blank values than the
\* sample holds, the sixth of them smaller than the minimum shown
C12_Witness ==
    /\ InDetails
    /\ screen.summary # NoSummary
    /\ NotShown \notin
          {screen.summary.min, screen.summary.max, screen.summary.avg}
    /\ Len(ShownNonBlank) > 5
    /\ looks_numeric(ShownNonBlank[6])
    /\ rat_less(to_float(ShownNonBlank[6]), screen.summary.min)

\* the number of places of seq that hold x
Count(seq, x) == Cardinality({k \in 1..Len(seq) : seq[k] = x})

\* a and b hold the same elements the same number of times
Permutation(a, b) ==
    /\ Len(a) = Len(b)
    /\ \A x \in Range(a) \cup Range(b) : Count(a, x) = Count(b, x)

\* no element of l is followed, anywhere, by a smaller one
Ascending(l) == \A i, j \in 1..Len(l) : i < j => ~str_less(l[j], l[i])

(***************************************************************************)
(* C13: for a column with unique_count <= 20 the detail view lists the     *)
(* retained sample in sorted order; for every column the listing is a      *)
(* permutation of the column's sample, so it has at most five entries.     *)
(***************************************************************************)
C13_ListingIsSample ==
    InDetails =>
        /\ Permutation(screen.listing, ShownColumn.sample)
        /\ Len(screen.listing) <= 5
        /\ ShownColumn.unique_count <= 20 => Ascending(screen.listing)

\* the listing of a column with at most 20 distinct values is shown in an
\* order other than the one its sample was collected in
C13_Witness ==
    /\ InDetails
    /\ ShownColumn.unique_count <= 20
    /\ Len(ShownColumn.sample) >= 2
    /\ screen.listing # ShownColumn.sample

(***************************************************************************)
(* C14: once analyze_csv has returned a Report, no menu command (r, a      *)
(* digit, an invalid input, n or q) and no presenter call changes any      *)
(* field of it: every step taken from the menu leaves report as it was.    *)
(***************************************************************************)
C14_ReportImmutable ==
    [][mpc = "menu" => report' = report]_vars

\* back in the menu after the detail view of a column whose sample is not
\* in sorted order, the report still holds the sample in encounter order
C14_Witness ==
    /\ InDetails
    /\ report = analyze_csv(file_path).report
    /\ ~Ascending(report.column_stats[screen.col].sample)
    /\ Ascending(screen.listing)

\* the name the spec gives the k-th column of a file without a header
SyntheticName(k) ==
    <<"C", "o", "l", "u", "m", "n", " ">>
        \o <<(<<"1", "2", "3", "4", "5", "6", "7", "8", "9">>)[k]>>

\* the rows of the file read so far that are data rows by the header decision
DataRowsRead == SubSeq(file, IF has_header THEN 2 ELSE 1, pos)

(***************************************************************************)
(* C16: with a header the first row gives the header names and is neither  *)
(* counted nor fed to a column; without one the headers are Column 1..N,   *)
(* N the field count of the first row, and the first row is the first data *)
(* row.  row_count is the number of rows minus one, or the number of rows; *)
(* the report has one column per header, in header order.                  *)
(***************************************************************************)
C16_HeaderDecision ==
    pc \in {"scan", "done"} =>
        /\ IF has_header
           THEN headers = file[1] /\ row_count = pos - 1
           ELSE /\ headers = [k \in 1..Len(file[1]) |-> SyntheticName(k)]
                /\ row_count = pos
        /\ Len(column_stats) = Len(headers)
        /\ \A i \in 1..Len(headers) : column_stats[i].name = headers[i]
        /\ pc = "scan" =>
              \A i \in 1..Len(headers) :
                  column_stats[i].unique = Range(ValuesAt(DataRowsRead, i))
        /\ pc = "done" =>
              /\ pos = Len(file)
              /\ result.headers = headers
              /\ result.row_count = Len(file) - (IF has_header THEN 1 ELSE 0)
              /\ result.column_stats = column_stats
              /\ \A i \in 1..Len(headers) :
                    result.column_stats[i].unique_count =
                        Cardinality(Range(ValuesAt(DataRowsRead, i)))

\* a report for a file without a header: three rows, at least two columns,
\* and the first row's value counted in the first column
C16_Witness ==
    /\ pc = "done"
    /\ ~has_header
    /\ Len(file) = 3 /\ result.row_count = 3
    /\ Len(result.headers) >= 2
    /\ file[1][1] \notin {file[2][k] : k \in 1..Len(file[2])}
                     \cup {file[3][k] : k \in 1..Len(file[3])}
    /\ result.column_stats[1].unique_count >= 1

(***************************************************************************)
(* C17: after any prefix of the processed rows a column's type is unknown  *)
(* if and only if its sample is empty, if and only if every field          *)
(* processed for it was empty after trimming, that is, its empty count is  *)
(* the number of fields processed for it.                                  *)
(***************************************************************************)
C17_UnknownIffNoValue ==
    pc \in {"scan", "done"} =>
        \A i \in 1..Len(column_stats) :
            LET col    == column_stats[i]
                fields == ValuesAt(Processed, i)
            IN  /\ (col.type = "unknown") <=> (col.sample = << >>)
                /\ (col.sample = << >>) <=> (col.empty = Len(fields))
                /\ (col.empty = Len(fields)) <=>
                       (\A k \in 1..Len(fields) : Blank(fields[k]))

\* after two rows or more, one column has met only blank fields, one of
\* them all spaces, and is still unknown, while another column has a type
C17_Witness ==
    /\ pc = "scan"
    /\ row_count >= 2
    /\ \E i, j \in 1..Len(column_stats) :
          /\ column_stats[i].type = "unknown"
          /\ sBlank \in Range(ValuesAt(Processed, i))
          /\ column_stats[i].empty >= 2
          /\ column_stats[j].type # "unknown"
          /\ column_stats[j].sample # << >>

(***************************************************************************)
(* C18: whenever a column's type is number or mixed, the first element of  *)
(* its sample passes the numeric test of the classification, so the detail *)
(* view of such a column always has a numeric summary; and when the type   *)
(* is number every element of the sample passes the test.                  *)
(***************************************************************************)
C18_SummaryNeverAbsent ==
    (InDetails /\ ShownColumn.type \in {"number", "mixed"}) =>
        /\ looks_numeric(ShownColumn.sample[1])
        /\ NumericSummary(ShownColumn) # NoSummary
        /\ ShownColumn.type = "number" =>
              \A k \in 1..Len(ShownColumn.sample) :
                  looks_numeric(ShownColumn.sample[k])

(***************************************************************************)
(* C19: row_count grows by one for every scanned row, rows shorter than    *)
(* the headers and rows without fields included; so in every report each   *)
(* column has unique_count <= row_count and empty + len(sample) <=         *)
(* row_count, and unique_count = 0 exactly when no scanned row had a field *)
(* at the column's index.                                                  *)
(***************************************************************************)
C19_Bounds ==
    pc = "done" =>
        /\ result.row_count = Len(DataRowsRead)
        /\ \A i \in 1..Len(result.column_stats) :
              LET col == result.column_stats[i] IN
              /\ col.unique_count <= result.row_count
              /\ col.empty + Len(col.sample) <= result.row_count
              /\ (col.unique_count = 0) <=>
                     (\A k \in 1..Len(DataRowsRead) : Len(DataRowsRead[k]) < i)

C19_Counted == RowStep => row_count' = row_count + 1 /\ pos' = pos + 1

C19_EveryRowCounted == []C19_Bounds /\ [][C19_Counted]_vars

\* a report over three data rows or more, one of them without fields and
\* one shorter than the headers: a column no row reached, next to a column
\* with fewer values than rows
C19_Witness ==
    /\ pc = "done"
    /\ result.row_count >= 3
    /\ \E k \in 1..Len(DataRowsRead) : DataRowsRead[k] = << >>
    /\ \E k \in 1..Len(DataRowsRead) :
          DataRowsRead[k] # << >> /\ Len(DataRowsRead[k]) < Len(headers)
    /\ \E i, j \in 1..Len(result.column_stats) :
          /\ result.column_stats[i].unique_count = 0
          /\ result.column_stats[j].unique_count > 0
          /\ result.column_stats[j].unique_count < result.row_count

====
